---- MODULE Spec2Model ----
(***************************************************************************)
(* Model of the two chat rate limiters of this repository:                 *)
(*   SlidingWindowRateLimiter  (src/sliding_window_rate_limiter.py)        *)
(*   ThrottlingRateLimiter     (src/throttling_rate_limiter.py)            *)
(* Time is counted in whole clock ticks (time.time() read as an integer).  *)
(* A Python dict is a function whose DOMAIN is the set of keys; a deque is  *)
(* a sequence, oldest element first.                                       *)
(***************************************************************************)
EXTENDS Integers, Sequences, FiniteSets, TLC

\* ---- bounds of the model ------------------------------------------------
MaxTime == 4
NumUsers == 2
MaxWindow == 1
MaxCap == 1
MaxInterval == 2
MaxDrift == 1

Users == 1..NumUsers
Threads == {1, 2}

NoExc == "None"
KeyErr == "KeyError"

VARIABLES
  window_size,   \* SlidingWindowRateLimiter.window_size
  max_requests,  \* SlidingWindowRateLimiter.max_requests
  min_interval,  \* ThrottlingRateLimiter.min_interval
  sw_history,    \* SlidingWindowRateLimiter.history : user -> deque of timestamps
  th_history,    \* ThrottlingRateLimiter.history    : user -> last timestamp
  now,           \* the value time.time() returns
  last,          \* the public call that has just returned, and what it returned
  pend,          \* observation of one "record failed, wait read, retry" scenario
  pc,            \* per thread: position inside a concurrent record_message
  loc            \* per thread: locals of the concurrent record_message

vars == <<window_size, max_requests, min_interval, sw_history, th_history,
          now, last, pend, pc, loc>>

config == <<window_size, max_requests, min_interval>>

\* ---- helpers -------------------------------------------------------------
Max(a, b) == IF a >= b THEN a ELSE b

EmptyDict == [k \in {} |-> 0]

\* del d[u]
DictDel(d, u) == [k \in (DOMAIN d) \ {u} |-> d[k]]

\* d[u] = v
DictSet(d, u, v) == [k \in (DOMAIN d) \cup {u} |-> IF k = u THEN v ELSE d[k]]

\* ---- SlidingWindowRateLimiter -------------------------------------------

\* the while loop of _cleanup_window: popleft() while the deque is non-empty
\* and its first element is older than current_time - window_size
RECURSIVE PopStale(_, _)
PopStale(q, bound) ==
  IF q # <<>> /\ Head(q) < bound THEN PopStale(Tail(q), bound) ELSE q

\* _cleanup_window(user_id, current_time).  The second `if` is not nested
\* in the first one, so self.history[user_id] is evaluated also for a user
\* that is not a key of the dict, which raises KeyError.
cleanup_window(h, u, t) ==
  LET h1 == IF u \in DOMAIN h
            THEN [h EXCEPT ![u] = PopStale(h[u], t - window_size)]
            ELSE h
  IN  IF u \notin DOMAIN h1
      THEN [exc |-> KeyErr, h |-> h1]
      ELSE IF h1[u] = <<>>
           THEN [exc |-> NoExc, h |-> DictDel(h1, u)]
           ELSE [exc |-> NoExc, h |-> h1]

\* SlidingWindowRateLimiter.can_send_message, current_time = t
SW_can_send_message(h, u, t) ==
  LET c == cleanup_window(h, u, t)
  IN  IF c.exc # NoExc
      THEN [exc |-> c.exc, h |-> c.h, ok |-> FALSE, wait |-> 0]
      ELSE [exc |-> NoExc, h |-> c.h,
            ok |-> IF u \in DOMAIN c.h THEN Len(c.h[u]) < max_requests ELSE TRUE,
            wait |-> 0]

\* SlidingWindowRateLimiter.record_message: t0 is the clock read of
\* record_message itself (the value appended), t1 >= t0 the later read made
\* inside can_send_message (the value the cleanup uses)
SW_record_message(h, u, t0, t1) ==
  LET c == SW_can_send_message(h, u, t1)
  IN  IF c.exc # NoExc THEN c
      ELSE IF c.ok
           THEN LET q == IF u \in DOMAIN c.h THEN c.h[u] ELSE <<>>
                IN  [exc |-> NoExc, h |-> DictSet(c.h, u, Append(q, t0)),
                     ok |-> TRUE, wait |-> 0]
           ELSE [exc |-> NoExc, h |-> c.h, ok |-> FALSE, wait |-> 0]

\* SlidingWindowRateLimiter.time_until_next_allowed, current_time = t
SW_time_until_next_allowed(h, u, t) ==
  LET c == cleanup_window(h, u, t)
  IN  IF c.exc # NoExc
      THEN [exc |-> c.exc, h |-> c.h, ok |-> FALSE, wait |-> 0]
      ELSE [exc |-> NoExc, h |-> c.h, ok |-> FALSE,
            wait |-> IF u \in DOMAIN c.h
                     THEN Max(0, window_size - (t - c.h[u][Len(c.h[u])]))
                     ELSE 0]

\* ---- ThrottlingRateLimiter ----------------------------------------------

\* variant: the comparison written with > instead of >=
TH_can_send_message_gt(h, u, t) ==
  IF u \in DOMAIN h THEN (t - h[u]) > min_interval ELSE TRUE

\* ThrottlingRateLimiter.can_send_message, time.time() = t
TH_can_send_message(h, u, t) ==
  IF u \in DOMAIN h THEN (t - h[u]) >= min_interval ELSE TRUE

\* variant: the timestamp is stored without asking can_send_message
TH_record_message_nocheck(h, u, t1, t2) ==
  [h |-> DictSet(h, u, t2), ok |-> TRUE]

\* variant: one timestamp shared by all users instead of one per user
TH_record_message_shared(h, u, t1, t2) ==
  IF u \in DOMAIN h => (t1 - h[u]) >= min_interval
  THEN [h |-> [k \in (DOMAIN h) \cup {u} |-> t2], ok |-> TRUE]
  ELSE [h |-> h, ok |-> FALSE]

\* variant: the timestamp is stored before can_send_message is asked
TH_record_message_writefirst(h, u, t1, t2) ==
  [h |-> DictSet(h, u, t2), ok |-> TH_can_send_message(h, u, t1)]

\* variant: the time of the next allowed message is stored instead of the
\* time of this one
TH_record_message_nexttime(h, u, t1, t2) ==
  IF TH_can_send_message(h, u, t1)
  THEN [h |-> DictSet(h, u, t2 + min_interval), ok |-> TRUE]
  ELSE [h |-> h, ok |-> FALSE]

\* ThrottlingRateLimiter.record_message: t1 is the clock read inside
\* can_send_message, t2 >= t1 the read whose value is stored
TH_record_message(h, u, t1, t2) ==
  IF TH_can_send_message(h, u, t1)
  THEN [h |-> DictSet(h, u, t2), ok |-> TRUE]
  ELSE [h |-> h, ok |-> FALSE]

\* variant: the operands of the subtraction exchanged
TH_time_until_next_allowed_swapped(h, u, t) ==
  IF u \in DOMAIN h THEN Max(0, (t - h[u]) - min_interval) ELSE 0

\* variant: the result is not clamped with max(0.0, ...)
TH_time_until_next_allowed_noclamp(h, u, t) ==
  IF u \in DOMAIN h THEN min_interval - (t - h[u]) ELSE 0

\* ThrottlingRateLimiter.time_until_next_allowed, time.time() = t
TH_time_until_next_allowed(h, u, t) ==
  IF u \in DOMAIN h THEN Max(0, min_interval - (t - h[u])) ELSE 0

\* ---- bookkeeping of the calls made (observation only) --------------------

NoCall == [lim |-> "none", op |-> "none", user |-> 0, t |-> 0, exc |-> NoExc,
           ok |-> FALSE, wait |-> 0, pre_in |-> FALSE, pre_ts |-> <<>>,
           retry |-> FALSE]

NoPend == [lim |-> "none", user |-> 0, stage |-> 0, t |-> 0, d |-> 0]

\* One (limiter, user) pair is followed at a time:
\* stage 1: its record_message returned False at time t;
\* stage 2: time_until_next_allowed was then read at the same time t, value d;
\* any other call for that user on that limiter ends the observation.
\* track: whether a failed record_message starts a new observation.
NextPend(p, lim, op, u, t, exc, ok, wait, track) ==
  IF op = "record" /\ exc = NoExc /\ ~ok /\ track
  THEN [lim |-> lim, user |-> u, stage |-> 1, t |-> t, d |-> 0]
  ELSE IF p.lim = lim /\ p.user = u
       THEN IF op = "wait" /\ exc = NoExc /\ p.stage = 1 /\ p.t = t
            THEN [p EXCEPT !.stage = 2, !.d = wait]
            ELSE NoPend
       ELSE p

\* the call is the retry, at time t + d, of the failed record_message
IsRetry(p, lim, op, u, t) ==
  p.lim = lim /\ p.user = u /\ op = "record" /\ p.stage = 2 /\ t = p.t + p.d

\* tracks: the choices allowed for starting an observation
Observe(lim, op, u, t, exc, ok, wait, h, tracks) ==
  /\ last' = [lim |-> lim, op |-> op, user |-> u, t |-> t, exc |-> exc,
              ok |-> ok, wait |-> wait,
              pre_in |-> u \in DOMAIN h,
              pre_ts |-> IF u \in DOMAIN h
                         THEN (IF lim = "sw" THEN h[u] ELSE <<h[u]>>)
                         ELSE <<>>,
              retry |-> IsRetry(pend, lim, op, u, t)]
  /\ \E track \in tracks :
       pend' = NextPend(pend, lim, op, u, t, exc, ok, wait, track)

\* ---- initial state: both limiters just constructed -----------------------
Init ==
  /\ window_size \in 1..MaxWindow
  /\ max_requests \in 1..MaxCap
  /\ min_interval \in 1..MaxInterval
  /\ sw_history = EmptyDict
  /\ th_history = EmptyDict
  /\ now = 0
  /\ last = NoCall
  /\ pend = NoPend
  /\ pc = [th \in Threads |-> "idle"]
  /\ loc = [th \in Threads |-> [lim |-> "none", user |-> 0, t0 |-> 0,
                                tchk |-> 0, ok |-> FALSE, exc |-> NoExc]]

\* ---- sequential behaviour: one public call at a time ---------------------

\* time passes between calls (no call has just returned)
Tick ==
  /\ now < MaxTime
  /\ now' = now + 1
  /\ last' = NoCall
  /\ UNCHANGED <<config, sw_history, th_history, pend, pc, loc>>

SWCanSend(u, tracks) ==
  LET r == SW_can_send_message(sw_history, u, now)
  IN  /\ sw_history' = r.h
      /\ Observe("sw", "can_send", u, now, r.exc, r.ok, 0, sw_history, tracks)
      /\ UNCHANGED <<config, th_history, now, pc, loc>>

SWRecord(u, tracks) ==
  \E d \in 0..MaxDrift :
    /\ now + d <= MaxTime
    /\ LET r == SW_record_message(sw_history, u, now, now + d)
       IN  /\ sw_history' = r.h
           /\ Observe("sw", "record", u, now + d, r.exc, r.ok, 0, sw_history, tracks)
    /\ now' = now + d
    /\ UNCHANGED <<config, th_history, pc, loc>>

SWTimeUntil(u, tracks) ==
  LET r == SW_time_until_next_allowed(sw_history, u, now)
  IN  /\ sw_history' = r.h
      /\ Observe("sw", "wait", u, now, r.exc, FALSE, r.wait, sw_history, tracks)
      /\ UNCHANGED <<config, th_history, now, pc, loc>>

THCanSend(u, tracks) ==
  /\ Observe("th", "can_send", u, now, NoExc,
             TH_can_send_message(th_history, u, now), 0, th_history, tracks)
  /\ UNCHANGED <<config, sw_history, th_history, now, pc, loc>>

THRecord(u, tracks) ==
  \E d \in 0..MaxDrift :
    /\ now + d <= MaxTime
    /\ LET r == TH_record_message(th_history, u, now, now + d)
       IN  /\ th_history' = r.h
           /\ Observe("th", "record", u, now, NoExc, r.ok, 0, th_history, tracks)
           /\ now' = IF r.ok THEN now + d ELSE now
           /\ (~r.ok => d = 0)
    /\ UNCHANGED <<config, sw_history, pc, loc>>

THTimeUntil(u, tracks) ==
  /\ Observe("th", "wait", u, now, NoExc, FALSE,
             TH_time_until_next_allowed(th_history, u, now), th_history, tracks)
  /\ UNCHANGED <<config, sw_history, th_history, now, pc, loc>>

Next ==
  \/ Tick
  \/ \E u \in Users : SWCanSend(u, {FALSE})
  \/ \E u \in Users : SWRecord(u, {FALSE})
  \/ \E u \in Users : SWTimeUntil(u, {FALSE})
  \/ \E u \in Users : THCanSend(u, {FALSE})
  \/ \E u \in Users : THRecord(u, {FALSE})
  \/ \E u \in Users : THTimeUntil(u, {FALSE})

Spec == Init /\ [][Next]_vars

\* The ThrottlingRateLimiter alone, with the caller's "record failed, read the
\* wait, retry" sequences observed.  The SlidingWindowRateLimiter is not
\* called and is constructed with window_size = 1, max_requests = 1.
InitRetry == Init /\ window_size = 1 /\ max_requests = 1

NextRetry ==
  \/ Tick
  \/ \E u \in Users : THCanSend(u, BOOLEAN)
  \/ \E u \in Users : THRecord(u, BOOLEAN)
  \/ \E u \in Users : THTimeUntil(u, BOOLEAN)

SpecRetry == InitRetry /\ [][NextRetry]_vars

TypeOK ==
  /\ now \in 0..MaxTime
  /\ DOMAIN sw_history \subseteq Users
  /\ DOMAIN th_history \subseteq Users
  /\ \A u \in DOMAIN th_history : th_history[u] \in 0..MaxTime

\* ---- concurrent behaviour: two threads inside record_message -------------
\* Each thread runs record_message of one limiter for one user; the clock
\* reads, the admission check and the write of the history are separate steps
\* that interleave with the other thread's.  Neither class takes a lock.

NoLocals == [lim |-> "none", user |-> 0, t0 |-> 0, tchk |-> 0,
             ok |-> FALSE, exc |-> NoExc]

\* a thread enters record_message(u) of one of the limiters
Call(th) ==
  /\ pc[th] = "idle"
  /\ \E lim \in {"sw", "th"}, u \in Users :
       /\ loc' = [loc EXCEPT ![th] = [NoLocals EXCEPT !.lim = lim, !.user = u]]
       /\ pc' = [pc EXCEPT ![th] = IF lim = "th" THEN "th_check" ELSE "sw_read"]
  /\ UNCHANGED <<config, sw_history, th_history, now, last, pend>>

\* ThrottlingRateLimiter.record_message: `if self.can_send_message(user_id)`
THCheck(th) ==
  /\ pc[th] = "th_check"
  /\ LET ok == TH_can_send_message(th_history, loc[th].user, now)
     IN  /\ loc' = [loc EXCEPT ![th].tchk = now]
         /\ pc' = [pc EXCEPT ![th] = IF ok THEN "th_write" ELSE "done"]
  /\ UNCHANGED <<config, sw_history, th_history, now, last, pend>>

\* ThrottlingRateLimiter.record_message: `self.history[user_id] = time.time()`
\* and `return True`
THWrite(th) ==
  /\ pc[th] = "th_write"
  /\ th_history' = DictSet(th_history, loc[th].user, now)
  /\ loc' = [loc EXCEPT ![th].ok = TRUE]
  /\ pc' = [pc EXCEPT ![th] = "done"]
  /\ UNCHANGED <<config, sw_history, now, last, pend>>

\* SlidingWindowRateLimiter.record_message, one step of it:
\*   sw_read   : current_time = time.time()
\*   sw_check  : if self.can_send_message(user_id)   (cleanup and length test)
\*   sw_append : create the deque if absent, append current_time, return True
SWStep(th) ==
  /\ pc[th] \in {"sw_read", "sw_check", "sw_append"}
  /\ LET u == loc[th].user
     IN  CASE pc[th] = "sw_read" ->
                /\ loc' = [loc EXCEPT ![th].t0 = now]
                /\ pc' = [pc EXCEPT ![th] = "sw_check"]
                /\ UNCHANGED sw_history
           [] pc[th] = "sw_check" ->
                LET r == SW_can_send_message(sw_history, u, now)
                IN  /\ sw_history' = r.h
                    /\ loc' = [loc EXCEPT ![th].tchk = now, ![th].exc = r.exc]
                    /\ pc' = [pc EXCEPT ![th] =
                                IF r.exc = NoExc /\ r.ok THEN "sw_append" ELSE "done"]
           [] pc[th] = "sw_append" ->
                LET q == IF u \in DOMAIN sw_history THEN sw_history[u] ELSE <<>>
                IN  /\ sw_history' = DictSet(sw_history, u, Append(q, loc[th].t0))
                    /\ loc' = [loc EXCEPT ![th].ok = TRUE]
                    /\ pc' = [pc EXCEPT ![th] = "done"]
  /\ UNCHANGED <<config, th_history, now, last, pend>>

\* the call has returned (or raised); the thread may make another call
Return(th) ==
  /\ pc[th] = "done"
  /\ pc' = [pc EXCEPT ![th] = "idle"]
  /\ loc' = [loc EXCEPT ![th] = NoLocals]
  /\ UNCHANGED <<config, sw_history, th_history, now, last, pend>>

NextConc ==
  \/ Tick
  \/ \E th \in Threads : Call(th)
  \/ \E th \in Threads : THCheck(th)
  \/ \E th \in Threads : THWrite(th)
  \/ \E th \in Threads : SWStep(th)
  \/ \E th \in Threads : Return(th)

SpecConc == Init /\ [][NextConc]_vars

\* =========================================================================
\* Properties
\* =========================================================================

\* the entry of user b in a dict: present or not, and its value
Entry(h, b) == IF b \in DOMAIN h THEN <<TRUE, h[b]>> ELSE <<FALSE>>

\* the dict with only the keys in S
Restrict(h, S) == [k \in (DOMAIN h) \cap S |-> h[k]]

\* number of timestamps of q that are still inside the window ending at t
InWindow(q, t) == Cardinality({i \in 1..Len(q) : q[i] >= t - window_size})

\* C2 (as claimed): two record_message calls of the same user that
\* interleave never both commit when the limit allows one: two calls of the
\* ThrottlingRateLimiter whose admission checks are less than min_interval
\* apart do not both return True, and no log of the SlidingWindowRateLimiter
\* holds more than max_requests timestamps that are inside the window.
C2_NoDoubleAdmit ==
  /\ \A a, b \in Threads :
       (/\ a # b
        /\ pc[a] = "done" /\ pc[b] = "done"
        /\ loc[a].lim = "th" /\ loc[b].lim = "th"
        /\ loc[a].user = loc[b].user
        /\ loc[a].ok /\ loc[b].ok)
       => \/ loc[a].tchk - loc[b].tchk >= min_interval
          \/ loc[b].tchk - loc[a].tchk >= min_interval
  /\ \A u \in DOMAIN sw_history : InWindow(sw_history[u], now) <= max_requests

\* C3 (as claimed): a call for a user that is not a key of history raises
\* nothing: can_send_message and record_message return True and
\* time_until_next_allowed returns 0, in both limiters.
C3_UnseenUserNoError ==
  (last.op # "none" /\ ~last.pre_in) =>
     /\ last.exc = NoExc
     /\ (last.op \in {"can_send", "record"} => last.ok)
     /\ (last.op = "wait" => last.wait = 0)

\* C4 (as claimed): SlidingWindowRateLimiter: when record_message has just
\* returned False at time t and d is what time_until_next_allowed returns at
\* t, record_message at t + d returns True; and no user is locked out for
\* ever: for every user there is a time from now on at which record_message
\* returns True.
C4_RetrySucceeds ==
  /\ (last.lim = "sw" /\ last.op = "record" /\ last.exc = NoExc /\ ~last.ok) =>
       LET w == SW_time_until_next_allowed(sw_history, last.user, now)
           r == SW_record_message(w.h, last.user, now + w.wait, now + w.wait)
       IN  w.exc = NoExc /\ r.exc = NoExc /\ r.ok
  /\ \A u \in Users :
       \E t \in now..(MaxTime + MaxWindow + 1) :
          LET r == SW_record_message(sw_history, u, t, t)
          IN  r.exc = NoExc /\ r.ok

\* C5: ThrottlingRateLimiter: a record_message retried at t + d, after
\* record_message returned False at t and time_until_next_allowed returned d
\* at the same t, with no other call for the user in between, returns True.
C5_RetrySucceeds ==
  (last.lim = "th" /\ last.retry) => (last.exc = NoExc /\ last.ok)

\* C5 witness: such a retry was made, after a wait that was not zero
C5_Witness ==
  /\ last.lim = "th" /\ last.retry /\ last.ok
  /\ last.pre_in /\ last.t > last.pre_ts[1]

\* C6: ThrottlingRateLimiter, sequential calls: a record_message that returns
\* True for a user whose previous admitted time is T is made at least
\* min_interval after T, and whenever the value stored for a user changes the
\* new value is at least min_interval larger than the old one.
C6_Separated ==
  /\ [] ((last.lim = "th" /\ last.op = "record" /\ last.ok /\ last.pre_in)
           => last.t - last.pre_ts[1] >= min_interval)
  /\ [][\A u \in DOMAIN th_history :
          /\ u \in DOMAIN th_history'
          /\ th_history'[u] # th_history[u]
               => th_history'[u] - th_history[u] >= min_interval]_vars

\* C6 witness: a second record_message of the same user has returned True
C6_Witness ==
  /\ last.lim = "th" /\ last.op = "record" /\ last.ok
  /\ last.pre_in
  /\ th_history[last.user] > last.pre_ts[1]

\* C7: ThrottlingRateLimiter: for a user whose last admitted time is T,
\* can_send_message returns False at every time t with T <= t < T +
\* min_interval, and record_message at exactly T + min_interval returns True.
C7_Boundary ==
  /\ \A u \in DOMAIN th_history :
       \A t \in th_history[u]..(th_history[u] + min_interval - 1) :
          ~TH_can_send_message(th_history, u, t)
  /\ (last.lim = "th" /\ last.pre_in) =>
       LET T == last.pre_ts[1]
       IN  /\ (last.op = "can_send" /\ T <= last.t /\ last.t < T + min_interval)
                => ~last.ok
           /\ (last.op = "record" /\ last.t = T + min_interval) => last.ok

\* C7 witness: record_message was called exactly min_interval after the last
\* admitted time and returned True
C7_Witness ==
  /\ last.lim = "th" /\ last.op = "record" /\ last.pre_in
  /\ last.t = last.pre_ts[1] + min_interval
  /\ last.ok

\* C8 (as claimed): SlidingWindowRateLimiter with max_requests = 1: for a
\* user without history record_message returns True; with T the recorded
\* time, record_message at T < t < T + window_size returns False and
\* time_until_next_allowed returns window_size - (t - T); record_message
\* later than T + window_size returns True.
C8_Scenario ==
  (max_requests = 1 /\ last.lim = "sw") =>
     /\ (last.op = "record" /\ ~last.pre_in) => (last.exc = NoExc /\ last.ok)
     /\ (last.pre_in /\ Len(last.pre_ts) = 1) =>
          LET T == last.pre_ts[1]
          IN  /\ (last.op = "record" /\ T < last.t /\ last.t < T + window_size)
                   => (last.exc = NoExc /\ ~last.ok)
              /\ (last.op = "wait" /\ T < last.t /\ last.t < T + window_size)
                   => (last.exc = NoExc /\ last.wait = window_size - (last.t - T))
              /\ (last.op = "record" /\ last.t > T + window_size)
                   => (last.exc = NoExc /\ last.ok)

\* C10: distinct users are independent in both limiters: a call for one user
\* leaves the entry of every other user as it was, and what a call for a user
\* returns at the current time and does to that user's entry is the same when
\* all other users' entries are removed from history.
C10_Independent ==
  /\ [][\A b \in Users :
          b # last'.user =>
            /\ Entry(th_history', b) = Entry(th_history, b)
            /\ Entry(sw_history', b) = Entry(sw_history, b)]_vars
  /\ [] (\A b \in Users : \A t \in {now} :
           LET th1 == Restrict(th_history, {b})
               sw1 == Restrict(sw_history, {b})
           IN  /\ TH_can_send_message(th_history, b, t)
                    = TH_can_send_message(th1, b, t)
               /\ TH_time_until_next_allowed(th_history, b, t)
                    = TH_time_until_next_allowed(th1, b, t)
               /\ TH_record_message(th_history, b, t, t).ok
                    = TH_record_message(th1, b, t, t).ok
               /\ Entry(TH_record_message(th_history, b, t, t).h, b)
                    = Entry(TH_record_message(th1, b, t, t).h, b)
               /\ \A other \in Users \ {b} :
                    Entry(TH_record_message(th_history, b, t, t).h, other)
                      = Entry(th_history, other)
               /\ LET Same(x, y) == /\ x.exc = y.exc /\ x.ok = y.ok
                                    /\ x.wait = y.wait
                                    /\ Entry(x.h, b) = Entry(y.h, b)
                  IN  /\ Same(SW_can_send_message(sw_history, b, t),
                               SW_can_send_message(sw1, b, t))
                      /\ Same(SW_record_message(sw_history, b, t, t),
                               SW_record_message(sw1, b, t, t))
                      /\ Same(SW_time_until_next_allowed(sw_history, b, t),
                               SW_time_until_next_allowed(sw1, b, t)))

\* C10 witness: one user's interval is saturated (its can_send_message is
\* False) and a record_message of another user has just returned True
C10_Witness ==
  /\ last.lim = "th" /\ last.op = "record" /\ last.ok
  /\ \E a \in DOMAIN th_history :
       /\ a # last.user
       /\ ~TH_can_send_message(th_history, a, now)

\* C12: a record_message that returns False changes nothing: the whole
\* history of both limiters is the same before and after the call; and a
\* timestamp enters history (a key appears, a stored time changes, a log
\* grows) only in a record_message call of that user that returns True.
C12_RefusalMutatesNothing ==
  [][/\ (last'.op = "record" /\ last'.exc = NoExc /\ ~last'.ok)
          => (th_history' = th_history /\ sw_history' = sw_history)
     /\ \A u \in Users :
          /\ Entry(th_history', u) # Entry(th_history, u)
               => (/\ last'.lim = "th" /\ last'.op = "record"
                   /\ last'.user = u /\ last'.ok)
          /\ (/\ u \in DOMAIN sw_history'
              /\ (u \in DOMAIN sw_history
                    => Len(sw_history'[u]) > Len(sw_history[u])))
               => (/\ last'.lim = "sw" /\ last'.op = "record"
                   /\ last'.user = u /\ last'.ok)]_vars

\* C12 witness: a record_message of the ThrottlingRateLimiter has just
\* returned False for a user that has a stored time
C12_Witness ==
  /\ last.lim = "th" /\ last.op = "record" /\ ~last.ok
  /\ last.pre_in
  /\ th_history[last.user] = last.pre_ts[1]

\* C13 (as claimed): SlidingWindowRateLimiter.time_until_next_allowed(u) at
\* time now evicts the stale entries and returns max(0, window_size - (now -
\* newest)) with newest the last timestamp left in u's log, returns 0 when no
\* history remains for u, and never returns a negative value.
C13_WaitFromNewest ==
  (last.lim = "sw" /\ last.op = "wait") =>
     /\ last.exc = NoExc
     /\ last.wait >= 0
     /\ LET left == SelectSeq(last.pre_ts,
                              LAMBDA x : x >= last.t - window_size)
        IN  last.wait = IF left = <<>>
                        THEN 0
                        ELSE Max(0, window_size - (last.t - left[Len(left)]))

\* C16: ThrottlingRateLimiter: a key of history is never removed, a stored
\* value never decreases, a stored value changes only in a record_message of
\* that user that returns True, and the value stored is the time of that
\* call (the clock read of its write), so no stored time is in the future.
C16_LastAdmittedKept ==
  /\ [] (\A u \in DOMAIN th_history : th_history[u] <= now)
  /\ [][\A u \in Users :
          /\ u \in DOMAIN th_history
               => (u \in DOMAIN th_history' /\ th_history'[u] >= th_history[u])
          /\ Entry(th_history', u) # Entry(th_history, u)
               => (/\ last'.lim = "th" /\ last'.op = "record"
                   /\ last'.user = u /\ last'.ok
                   /\ th_history'[u] = now')
          /\ (last'.lim = "th" /\ last'.op = "record"
              /\ last'.user = u /\ last'.ok)
               => (u \in DOMAIN th_history' /\ th_history'[u] = now')]_vars

\* C16 witness: the stored time of a user has just been overwritten by a
\* later one, while another user's earlier time is still kept
C16_Witness ==
  /\ last.lim = "th" /\ last.op = "record" /\ last.ok /\ last.pre_in
  /\ th_history[last.user] = now
  /\ now > last.pre_ts[1]
  /\ \E v \in DOMAIN th_history : v # last.user /\ th_history[v] < now

\* C17: ThrottlingRateLimiter.time_until_next_allowed(u) at time t returns 0
\* for a user without a stored time, and for a user whose stored time is T it
\* returns min_interval - (t - T) while that is positive and 0 from then on;
\* the value is never negative; time_until_next_allowed and can_send_message
\* leave history as it was.
C17_WaitValue ==
  /\ [] ((last.lim = "th" /\ last.op = "wait") =>
           /\ last.wait >= 0
           /\ IF ~last.pre_in THEN last.wait = 0
              ELSE LET elapsed == last.t - last.pre_ts[1]
                   IN  IF elapsed >= min_interval
                       THEN last.wait = 0
                       ELSE last.wait + elapsed = min_interval)
  /\ [][(last'.lim = "th" /\ last'.op \in {"wait", "can_send"})
          => th_history' = th_history]_vars

\* C17 witness: time_until_next_allowed has just returned 0 for a user whose
\* interval has more than elapsed
C17_Witness ==
  /\ last.lim = "th" /\ last.op = "wait" /\ last.pre_in
  /\ last.t - last.pre_ts[1] > min_interval
  /\ last.wait = 0

\* C19: ThrottlingRateLimiter: in every reachable state, for every user and
\* every time from now on, can_send_message returns True exactly when
\* time_until_next_allowed returns 0 at that time.
C19_AdmitIffNoWait ==
  \A u \in Users : \A t \in now..MaxTime :
     TH_can_send_message(th_history, u, t)
       <=> (TH_time_until_next_allowed(th_history, u, t) = 0)

\* C19 witness: time_until_next_allowed has just returned 0 exactly
\* min_interval after the stored time of a user, and can_send_message is True
\* at that time
C19_Witness ==
  /\ last.lim = "th" /\ last.op = "wait" /\ last.pre_in
  /\ last.t = last.pre_ts[1] + min_interval
  /\ last.wait = 0
  /\ TH_can_send_message(th_history, last.user, now)

====
